---- MODULE Spec2Model ----
(***************************************************************************)
(* A model of src/track_cs2.py: the CS2 session tracker.                   *)
(*                                                                         *)
(* Tracker processes run track_game(): check_single_instance() on the lock *)
(* file, atexit registration, auth_calendar(), then the polling loop with  *)
(* its three exception handlers and the finally block.                     *)
(*                                                                         *)
(* Time is in seconds.  Statements take no time; time passes only in       *)
(* time.sleep (the loop samples at its fixed interval).  A                 *)
(* KeyboardInterrupt may be delivered between any two steps of track_game, *)
(* an Exception (a failing print, say) at any step of the try block and     *)
(* of its handlers.  os.remove is taken to fail only with                  *)
(* FileNotFoundError, and the write of the lock file (open 'w' + write +   *)
(* close, lines 53-54) is one step.                                        *)
(***************************************************************************)
EXTENDS Integers, Sequences, FiniteSets, TLC

VARIABLES
    pc,             \* pid -> program point ("absent": no such process,
                    \*        "other": a live process that is not the tracker)
    lockFile,       \* cs2_tracker.lock: NoFile, Invalid, or PidFile(n)
    readPid,        \* check_single_instance: local pid (line 35)
    registered,     \* atexit.register(cleanup_lock_file) done (line 151)
    ret,            \* cleanup_lock_file: who called it ("finally" | "atexit")
    pending,        \* exception in flight while the finally block runs
    exitCode,       \* process exit status (meaningful once pc = "done")
    cs2_active,     \* track_game local (line 158)
    session_start,  \* track_game local (line 159): <<>> is None, <<t>> a time
    session_end,    \* track_game local: <<>> unset, <<t>>
    is_running,     \* track_game local (line 165)
    now,            \* wall clock, seconds
    calls,          \* history: create_event invocations [start, end, ok, via]
    readings,       \* history: the probe readings the loop has taken
    opens,          \* history: number of session opens (lines 176-177)
    closes,         \* history: number of session closes (line 180)
    path,           \* history: the control path the process is ending on
    callKind,       \* history: the lock file as check_single_instance found it
    authCount,      \* history: number of auth_calendar() calls
    probeErr,       \* history: the last probe raised inside is_cs2_running
    probeTable,     \* is_cs2_running called alone: the process table it saw
    probeFails,     \* is_cs2_running called alone: process_iter raised
    probeResult     \* is_cs2_running called alone: the value it returned

vars == <<pc, lockFile, readPid, registered, ret, pending, exitCode,
          cs2_active, session_start, session_end, is_running, now,
          calls, readings, opens, closes, path, callKind, authCount,
          probeErr, probeTable, probeFails, probeResult>>

lockVars == <<lockFile, readPid>>
sessVars == <<cs2_active, session_start, session_end, is_running>>
histVars == <<calls, readings, opens, closes, callKind, authCount, probeErr>>
probeVars == <<probeTable, probeFails, probeResult>>

----------------------------------------------------------------------------
(* Bounds and program constants *)

MaxTime == 34
MIN_DURATION == 30
POLL_INTERVAL == 2

Pids == {1, 2, 3}
Trackers == {1, 2}
Primary == {1}

NoFile == <<"none">>
Invalid == <<"invalid">>
PidFile(n) == <<"pid", n>>

Alive(q) == pc[q] \notin {"absent", "done"}
IsTracker(q) == Alive(q) /\ pc[q] # "other"

CsiPcs == {"csi_exists", "csi_read", "csi_proc", "csi_cmdline", "csi_rm_stale",
           "csi_except", "csi_except_rm", "csi_write"}
StartupPcs == {"csi_ret_true", "csi_ret_false", "atexit_reg", "auth", "loop_init"}
LoopPcs == {"probe", "branch", "insert", "close_ret", "sleep"}
LoopExcPcs == {"loop_exc", "exc_insert", "exc_ret"}
KbdPcs == {"kbd", "kbd_insert"}
FatalPcs == {"fatal", "fatal_insert"}
FinallyPcs == {"finally", "final_sleep"}
CleanupPcs == {"cl_exists", "cl_remove"}

----------------------------------------------------------------------------
(* Interpreter exit: atexit handlers run, then the process is gone *)

ProcessExit(p, code) ==
    /\ exitCode' = [exitCode EXCEPT ![p] = code]
    /\ IF registered[p]
       THEN /\ pc' = [pc EXCEPT ![p] = "cl_exists"]
            /\ ret' = [ret EXCEPT ![p] = "atexit"]
       ELSE /\ pc' = [pc EXCEPT ![p] = "done"]
            /\ UNCHANGED ret

----------------------------------------------------------------------------
(* check_single_instance, lines 30-56 *)

KindOfFile(p) ==
    IF lockFile = NoFile THEN "nofile"
    ELSE IF lockFile = Invalid THEN "invalid"
    ELSE IF lockFile[2] = p THEN "own"
    ELSE IF IsTracker(lockFile[2]) THEN "held"
    ELSE "stale"

\* line 147: track_game calls check_single_instance()
TgStart(p) ==
    /\ pc[p] = "start"
    /\ pc' = [pc EXCEPT ![p] = "csi_exists"]
    /\ callKind' = [callKind EXCEPT ![p] = KindOfFile(p)]
    /\ UNCHANGED <<lockVars, registered, probeVars, ret, pending, exitCode, sessVars, now,
                   calls, readings, probeErr, opens, closes, path, authCount>>

\* line 32: if os.path.exists(LOCK_FILE)
CsiExists(p) ==
    /\ pc[p] = "csi_exists"
    /\ pc' = [pc EXCEPT ![p] = IF lockFile # NoFile THEN "csi_read" ELSE "csi_write"]
    /\ UNCHANGED <<lockVars, registered, probeVars, ret, pending, exitCode, sessVars, now,
                   histVars, path>>

\* lines 34-35: pid = int(f.read().strip()); FileNotFoundError and ValueError
\* go to the handler of line 47
CsiRead(p) ==
    /\ pc[p] = "csi_read"
    /\ IF lockFile = NoFile \/ lockFile = Invalid
       THEN /\ pc' = [pc EXCEPT ![p] = "csi_except"]
            /\ UNCHANGED readPid
       ELSE /\ pc' = [pc EXCEPT ![p] = "csi_proc"]
            /\ readPid' = [readPid EXCEPT ![p] = lockFile[2]]
    /\ UNCHANGED <<lockFile, registered, probeVars, ret, pending, exitCode, sessVars, now,
                   histVars, path>>

\* line 39: psutil.Process(pid) raises NoSuchProcess for a pid that is gone
CsiProcess(p) ==
    /\ pc[p] = "csi_proc"
    /\ pc' = [pc EXCEPT ![p] = IF Alive(readPid[p]) THEN "csi_cmdline"
                               ELSE "csi_rm_stale"]
    /\ UNCHANGED <<lockVars, registered, probeVars, ret, pending, exitCode, sessVars, now,
                   histVars, path>>

\* line 40: process.is_running() and 'track_cs2.py' in cmdline.
\* denied: cmdline() raises AccessDenied (only for a foreign process);
\* a process that went away since line 39 gives is_running() = False, or
\* NoSuchProcess from cmdline() (raced).
\* faulty variant: any live process counts as the tracker
CmdlineOutcomeNoIdentity(q, denied, raced) ==
    IF Alive(q) THEN "ret_false"
    ELSE IF raced THEN "rm_stale" ELSE "write"

\* faulty variant: the recorded pid is never taken to be a running tracker
CmdlineOutcomeNoLiveCheck(q, denied, raced) ==
    IF raced THEN "rm_stale" ELSE "write"

CmdlineOutcome(q, denied, raced) ==
    IF IsTracker(q) THEN "ret_false"
    ELSE IF Alive(q) THEN (IF denied THEN "rm_stale" ELSE "write")
    ELSE IF raced THEN "rm_stale" ELSE "write"

CsiCmdline(p) ==
    /\ pc[p] = "csi_cmdline"
    /\ \E denied \in BOOLEAN, raced \in BOOLEAN :
         LET o == CmdlineOutcome(readPid[p], denied, raced) IN
         pc' = [pc EXCEPT ![p] = IF o = "ret_false" THEN "csi_ret_false"
                                  ELSE IF o = "rm_stale" THEN "csi_rm_stale"
                                  ELSE "csi_write"]
    /\ UNCHANGED <<lockVars, registered, probeVars, ret, pending, exitCode, sessVars, now,
                   histVars, path>>

\* line 46: os.remove(LOCK_FILE) in the handler of line 44; a
\* FileNotFoundError goes on to the handler of line 47
CsiRemoveStale(p) ==
    /\ pc[p] = "csi_rm_stale"
    /\ IF lockFile = NoFile
       THEN /\ pc' = [pc EXCEPT ![p] = "csi_except"]
            /\ UNCHANGED lockFile
       ELSE /\ pc' = [pc EXCEPT ![p] = "csi_write"]
            /\ lockFile' = NoFile
    /\ UNCHANGED <<readPid, registered, probeVars, ret, pending, exitCode, sessVars, now,
                   histVars, path>>

\* line 49: if os.path.exists(LOCK_FILE)
CsiExcept(p) ==
    /\ pc[p] = "csi_except"
    /\ pc' = [pc EXCEPT ![p] = IF lockFile # NoFile THEN "csi_except_rm"
                               ELSE "csi_write"]
    /\ UNCHANGED <<lockVars, registered, probeVars, ret, pending, exitCode, sessVars, now,
                   histVars, path>>

\* line 50: os.remove(LOCK_FILE); a FileNotFoundError here is caught by
\* nothing and ends the process (atexit is not registered yet)
CsiExceptRemove(p) ==
    /\ pc[p] = "csi_except_rm"
    /\ IF lockFile = NoFile
       THEN /\ ProcessExit(p, 1)
            /\ path' = [path EXCEPT ![p] = "crash"]
            /\ UNCHANGED lockFile
       ELSE /\ pc' = [pc EXCEPT ![p] = "csi_write"]
            /\ lockFile' = NoFile
            /\ UNCHANGED <<ret, exitCode, path>>
    /\ UNCHANGED <<readPid, registered, probeVars, pending, sessVars, now, histVars>>

\* lines 53-56: write own pid, return True
WrittenPid(p) == p

CsiWrite(p) ==
    /\ pc[p] = "csi_write"
    /\ lockFile' = PidFile(WrittenPid(p))
    /\ pc' = [pc EXCEPT ![p] = "csi_ret_true"]
    /\ UNCHANGED <<readPid, registered, probeVars, ret, pending, exitCode, sessVars, now,
                   histVars, path>>

----------------------------------------------------------------------------
(* track_game start-up, lines 145-160 *)

\* faulty variant: start-up goes on without the lock
TgCheckFailedContinues(p) ==
    /\ pc[p] = "csi_ret_false"
    /\ pc' = [pc EXCEPT ![p] = "auth"]
    /\ UNCHANGED <<lockVars, registered, probeVars, ret, pending, exitCode, sessVars, now,
                   histVars, path>>

\* line 148: sys.exit(1) when check_single_instance() returned False
TgCheckFailed(p) ==
    /\ pc[p] = "csi_ret_false"
    /\ ProcessExit(p, 1)
    /\ path' = [path EXCEPT ![p] = "contention"]
    /\ UNCHANGED <<lockVars, registered, probeVars, pending, sessVars, now, histVars>>

\* line 151: atexit.register(cleanup_lock_file)
TgAtexitRegister(p) ==
    /\ pc[p] = "csi_ret_true"
    /\ registered' = [registered EXCEPT ![p] = TRUE]
    /\ pc' = [pc EXCEPT ![p] = "auth"]
    /\ UNCHANGED <<lockVars, probeVars, ret, pending, exitCode, sessVars, now,
                   histVars, path>>

\* auth_calendar, lines 66-100, by its inputs: credentials.json present,
\* the state of token.json, and whether refresh, OAuth flow and build succeed.
TokenStates == {"absent", "corrupt", "valid", "expired", "invalid"}

AuthResult(creds, token, refreshOk, oauthOk, buildOk) ==
    IF ~creds THEN "exit"                                   \* lines 67-69
    ELSE IF token = "corrupt" THEN "exit"                   \* lines 75-77
    ELSE IF token # "valid" /\ token = "expired" /\ ~refreshOk
         THEN "exit"                                        \* lines 83-85
    ELSE IF token # "valid" /\ token # "expired" /\ ~oauthOk
         THEN "exit"                                        \* lines 90-92
    ELSE IF ~buildOk THEN "exit"                            \* lines 98-100
    ELSE "ok"

\* line 154: calendar_service = auth_calendar()
AuthCalendar(p) ==
    /\ pc[p] = "auth"
    /\ authCount' = [authCount EXCEPT ![p] = @ + 1]
    /\ \E creds \in BOOLEAN, token \in TokenStates, refreshOk \in BOOLEAN,
          oauthOk \in BOOLEAN, buildOk \in BOOLEAN :
         IF AuthResult(creds, token, refreshOk, oauthOk, buildOk) = "ok"
         THEN /\ pc' = [pc EXCEPT ![p] = "loop_init"]
              /\ UNCHANGED <<ret, exitCode, path>>
         ELSE /\ ProcessExit(p, 1)
              /\ path' = [path EXCEPT ![p] = "auth"]
    /\ UNCHANGED <<lockVars, registered, probeVars, pending, sessVars, now,
                   calls, readings, probeErr, opens, closes, callKind>>

\* faulty variant: the loop starts Active with no start time
TgLoopInitActive(p) ==
    /\ pc[p] = "loop_init"
    /\ cs2_active' = [cs2_active EXCEPT ![p] = TRUE]
    /\ session_start' = [session_start EXCEPT ![p] = <<>>]
    /\ pc' = [pc EXCEPT ![p] = "probe"]
    /\ UNCHANGED <<lockVars, registered, probeVars, ret, pending, exitCode, session_end,
                   is_running, now, histVars, path>>

\* lines 158-160
TgLoopInit(p) ==
    /\ pc[p] = "loop_init"
    /\ cs2_active' = [cs2_active EXCEPT ![p] = FALSE]
    /\ session_start' = [session_start EXCEPT ![p] = <<>>]
    /\ pc' = [pc EXCEPT ![p] = "probe"]
    /\ UNCHANGED <<lockVars, registered, probeVars, ret, pending, exitCode, session_end,
                   is_running, now, histVars, path>>

----------------------------------------------------------------------------
(* is_cs2_running, lines 117-143 *)

MaxProcs == 2

GAME_NAMES == {"cs2.exe", "cs2", "Counter-Strike 2", "counter-strike2.exe"}

ProcNames == {"cs2.exe", "CS2.EXE", "cs2", "notepad.exe"}

\* str.lower() on the names of ProcNames and GAME_NAMES
Lower(n) ==
    IF n = "CS2.EXE" THEN "cs2.exe"
    ELSE IF n = "Counter-Strike 2" THEN "counter-strike 2"
    ELSE n

\* A listed process: info = "named": proc.info['name'] is its name;
\* "unnamed": proc.info['name'] is None and proc.name() answers;
\* "gone": proc.info['name'] is None and proc.name() raises NoSuchProcess,
\* AccessDenied or ZombieProcess (line 127: continue).
ProcEntries == [name : ProcNames, info : {"named", "unnamed", "gone"}]

ProcTables == UNION {[1..n -> ProcEntries] : n \in 0..MaxProcs}

\* faulty variant: a process that vanished is matched by its listed name
Cs2ProcessesNoSkip(table) ==
    {i \in 1..Len(table) : Lower(table[i].name) = "cs2.exe"}

\* lines 121-128: the names appended to cs2_processes
Cs2Processes(table) ==
    {i \in 1..Len(table) : /\ table[i].info # "gone"
                           /\ Lower(table[i].name) = "cs2.exe"}

\* iterFails: process_iter itself raises (line 141: return False)
IsCs2Running(table, iterFails) ==
    IF iterFails THEN FALSE ELSE Cs2Processes(table) # {}

----------------------------------------------------------------------------
(* create_event, lines 102-115: the insert succeeds or raises; either way
   the call returns (True or False) *)

CreateEvent(p, via) ==
    \E ok \in BOOLEAN :
        calls' = [calls EXCEPT ![p] =
                    Append(@, [start |-> session_start[p][1],
                               end |-> session_end[p][1],
                               ok |-> ok, via |-> via])]

\* duration.total_seconds() >= 30, lines 186, 212, 231, 247
\* faulty variant: no minimum-duration filter
QualifiesAlways(start, end) == TRUE

Qualifies(start, end) == end - start >= MIN_DURATION

----------------------------------------------------------------------------
(* the polling loop, lines 163-200 *)

\* line 165: is_running = is_cs2_running()
Probe(p) ==
    /\ pc[p] = "probe"
    /\ \E table \in ProcTables, iterFails \in BOOLEAN :
         /\ is_running' = [is_running EXCEPT ![p] = IsCs2Running(table, iterFails)]
         /\ readings' = [readings EXCEPT ![p] =
                           Append(@, IsCs2Running(table, iterFails))]
         /\ probeErr' = [probeErr EXCEPT ![p] = iterFails]
    /\ pc' = [pc EXCEPT ![p] = "branch"]
    /\ UNCHANGED <<lockVars, registered, probeVars, ret, pending, exitCode, cs2_active,
                   session_start, session_end, now, calls, opens, closes,
                   callKind, authCount, path>>

\* line 175: is_running and not cs2_active
\* faulty variant: opens on every true reading
OpensSessionNoGuard(p) == is_running[p]

OpensSession(p) == is_running[p] /\ ~cs2_active[p]

\* line 179: not is_running and cs2_active
ClosesSession(p) == ~is_running[p] /\ cs2_active[p]

\* lines 175-198
Branch(p) ==
    /\ pc[p] = "branch"
    /\ IF OpensSession(p)
       THEN /\ cs2_active' = [cs2_active EXCEPT ![p] = TRUE]
            /\ session_start' = [session_start EXCEPT ![p] = <<now>>]
            /\ opens' = [opens EXCEPT ![p] = @ + 1]
            /\ pc' = [pc EXCEPT ![p] = "sleep"]
            /\ UNCHANGED <<session_end, closes, pending, path>>
       ELSE IF ClosesSession(p)
       THEN /\ session_end' = [session_end EXCEPT ![p] = <<now>>]
            /\ closes' = [closes EXCEPT ![p] = @ + 1]
            /\ IF session_start[p] # <<>>
               THEN /\ pc' = [pc EXCEPT ![p] =
                               IF Qualifies(session_start[p][1], now)
                               THEN "insert" ELSE "close_ret"]
                    /\ UNCHANGED <<pending, path>>
               ELSE /\ pc' = [pc EXCEPT ![p] = "finally"]          \* line 196
                    /\ pending' = [pending EXCEPT ![p] = "none"]
                    /\ path' = [path EXCEPT ![p] = "no_start"]
            /\ UNCHANGED <<cs2_active, session_start, opens>>
       ELSE /\ pc' = [pc EXCEPT ![p] = "sleep"]
            /\ UNCHANGED <<cs2_active, session_start, session_end, opens,
                           closes, pending, path>>
    /\ UNCHANGED <<lockVars, registered, probeVars, ret, exitCode, is_running, now,
                   calls, readings, probeErr, callKind, authCount>>

\* faulty variant: a failed insert raises out of create_event
InsertRaises(p) ==
    /\ pc[p] = "insert"
    /\ CreateEvent(p, "close")
    /\ pc' = [pc EXCEPT ![p] =
                IF calls'[p][Len(calls'[p])].ok THEN "close_ret" ELSE "loop_exc"]
    /\ UNCHANGED <<lockVars, registered, probeVars, ret, pending, exitCode, sessVars, now,
                   readings, probeErr, opens, closes, callKind, authCount, path>>

\* line 188: create_event(calendar_service, session_start, session_end)
Insert(p) ==
    /\ pc[p] = "insert"
    /\ CreateEvent(p, "close")
    /\ pc' = [pc EXCEPT ![p] = "close_ret"]
    /\ UNCHANGED <<lockVars, registered, probeVars, ret, pending, exitCode, sessVars, now,
                   readings, probeErr, opens, closes, callKind, authCount, path>>

\* faulty variant: the loop goes on after a session is recorded
CloseReturnContinues(p) ==
    /\ pc[p] = "close_ret"
    /\ pc' = [pc EXCEPT ![p] = "sleep"]
    /\ UNCHANGED <<lockVars, registered, probeVars, ret, pending, exitCode, sessVars, now,
                   histVars, path>>

\* lines 192-193: print, return (the finally block runs next)
CloseReturn(p) ==
    /\ pc[p] = "close_ret"
    /\ pc' = [pc EXCEPT ![p] = "finally"]
    /\ pending' = [pending EXCEPT ![p] = "none"]
    /\ path' = [path EXCEPT ![p] = "session"]
    /\ UNCHANGED <<lockVars, registered, probeVars, ret, exitCode, sessVars, now, histVars>>

\* faulty variant: the sleep overshoots the poll interval by a second
SleepDrift(p) ==
    /\ pc[p] = "sleep"
    /\ now + POLL_INTERVAL + 1 <= MaxTime
    /\ now' = now + POLL_INTERVAL + 1
    /\ pc' = [pc EXCEPT ![p] = "probe"]
    /\ UNCHANGED <<lockVars, registered, probeVars, ret, pending, exitCode, sessVars,
                   histVars, path>>

\* line 200: time.sleep(2)
Sleep(p) ==
    /\ pc[p] = "sleep"
    /\ now + POLL_INTERVAL <= MaxTime
    /\ now' = now + POLL_INTERVAL
    /\ pc' = [pc EXCEPT ![p] = "probe"]
    /\ UNCHANGED <<lockVars, registered, probeVars, ret, pending, exitCode, sessVars,
                   histVars, path>>

----------------------------------------------------------------------------
(* the handlers of track_game, lines 202-252 *)

\* if cs2_active and session_start (lines 205, 225, 240)
HasSession(p) == cs2_active[p] /\ session_start[p] # <<>>

\* The body shared by the three handlers: close the session at the current
\* time and go to the handler's create_event call when the duration
\* qualifies, else to `after`.
EmergencyClose(p, insertPc, after) ==
    IF HasSession(p)
    THEN /\ session_end' = [session_end EXCEPT ![p] = <<now>>]
         /\ pc' = [pc EXCEPT ![p] =
                     IF Qualifies(session_start[p][1], now) THEN insertPc ELSE after]
    ELSE /\ pc' = [pc EXCEPT ![p] = "finally"]
         /\ UNCHANGED session_end

\* lines 202-221: except Exception as loop_error (inside the loop)
LoopExc(p) ==
    /\ pc[p] = "loop_exc"
    /\ EmergencyClose(p, "exc_insert", "exc_ret")
    /\ pending' = [pending EXCEPT ![p] = "none"]
    /\ path' = [path EXCEPT ![p] = "loop_fault"]
    /\ UNCHANGED <<lockVars, registered, probeVars, ret, exitCode, cs2_active, session_start,
                   is_running, now, histVars>>

\* line 213
ExcInsert(p) ==
    /\ pc[p] = "exc_insert"
    /\ CreateEvent(p, "loop_exc")
    /\ pc' = [pc EXCEPT ![p] = "exc_ret"]
    /\ UNCHANGED <<lockVars, registered, probeVars, ret, pending, exitCode, sessVars, now,
                   readings, probeErr, opens, closes, callKind, authCount, path>>

\* lines 217-218: print, return
ExcReturn(p) ==
    /\ pc[p] = "exc_ret"
    /\ pc' = [pc EXCEPT ![p] = "finally"]
    /\ UNCHANGED <<lockVars, registered, probeVars, ret, pending, exitCode, sessVars, now,
                   histVars, path>>

\* lines 223-236: except KeyboardInterrupt
Kbd(p) ==
    /\ pc[p] = "kbd"
    /\ EmergencyClose(p, "kbd_insert", "finally")
    /\ pending' = [pending EXCEPT ![p] = "none"]
    /\ path' = [path EXCEPT ![p] = "interrupt"]
    /\ UNCHANGED <<lockVars, registered, probeVars, ret, exitCode, cs2_active, session_start,
                   is_running, now, histVars>>

\* line 232
KbdInsert(p) ==
    /\ pc[p] = "kbd_insert"
    /\ CreateEvent(p, "kbd")
    /\ pc' = [pc EXCEPT ![p] = "finally"]
    /\ UNCHANGED <<lockVars, registered, probeVars, ret, pending, exitCode, sessVars, now,
                   readings, probeErr, opens, closes, callKind, authCount, path>>

\* lines 237-252: except Exception as e (outer)
Fatal(p) ==
    /\ pc[p] = "fatal"
    /\ EmergencyClose(p, "fatal_insert", "finally")
    /\ pending' = [pending EXCEPT ![p] = "none"]
    /\ path' = [path EXCEPT ![p] = "fatal"]
    /\ UNCHANGED <<lockVars, registered, probeVars, ret, exitCode, cs2_active, session_start,
                   is_running, now, histVars>>

\* line 248
FatalInsert(p) ==
    /\ pc[p] = "fatal_insert"
    /\ CreateEvent(p, "fatal")
    /\ pc' = [pc EXCEPT ![p] = "finally"]
    /\ UNCHANGED <<lockVars, registered, probeVars, ret, pending, exitCode, sessVars, now,
                   readings, probeErr, opens, closes, callKind, authCount, path>>

----------------------------------------------------------------------------
(* the finally block (lines 253-257) and cleanup_lock_file (lines 58-64) *)

\* lines 254-255: print, cleanup_lock_file()
Finally(p) ==
    /\ pc[p] = "finally"
    /\ pc' = [pc EXCEPT ![p] = "cl_exists"]
    /\ ret' = [ret EXCEPT ![p] = "finally"]
    /\ UNCHANGED <<lockVars, registered, probeVars, pending, exitCode, sessVars, now,
                   histVars, path>>

CleanupReturn(p) == IF ret[p] = "finally" THEN "final_sleep" ELSE "done"

\* line 60: if os.path.exists(LOCK_FILE)
ClExists(p) ==
    /\ pc[p] = "cl_exists"
    /\ pc' = [pc EXCEPT ![p] = IF lockFile # NoFile THEN "cl_remove"
                               ELSE CleanupReturn(p)]
    /\ UNCHANGED <<lockVars, registered, probeVars, ret, pending, exitCode, sessVars, now,
                   histVars, path>>

\* lines 61-64: os.remove(LOCK_FILE), OSError swallowed
RemovedFile == NoFile

ClRemove(p) ==
    /\ pc[p] = "cl_remove"
    /\ lockFile' = RemovedFile
    /\ pc' = [pc EXCEPT ![p] = CleanupReturn(p)]
    /\ UNCHANGED <<readPid, registered, probeVars, ret, pending, exitCode, sessVars, now,
                   histVars, path>>

\* The exit status of the interpreter: 0 when track_game returns, 1 for an
\* uncaught Exception, 130 for an uncaught KeyboardInterrupt.
\* faulty variant: a failure status on every exit
ExitStatusAlwaysOne(pend) == 1

ExitStatus(pend) ==
    IF pend = "none" THEN 0 ELSE IF pend = "Exception" THEN 1 ELSE 130

\* lines 256-257: print, time.sleep(10); then track_game returns, or the
\* exception in flight goes on, and the interpreter exits.
FinalSleep(p) ==
    /\ pc[p] = "final_sleep"
    /\ ProcessExit(p, ExitStatus(pending[p]))
    /\ UNCHANGED <<lockVars, registered, probeVars, pending, sessVars, now, histVars, path>>

----------------------------------------------------------------------------
(* asynchronous events *)

InTry(p) == pc[p] \in LoopPcs \cup LoopExcPcs
InHandler(p) == pc[p] \in KbdPcs \cup FatalPcs
InFinally(p) == pc[p] \in FinallyPcs \/ (pc[p] \in CleanupPcs /\ ret[p] = "finally")
InStartup(p) == pc[p] \in CsiPcs \cup StartupPcs

\* KeyboardInterrupt delivered to p.  Inside the try block (lines 162-221)
\* it reaches the handler of line 223; inside a handler of the outer try it
\* goes on through the finally block; anywhere else nothing catches it.
\* An interrupt during time.sleep(2) ends the sleep early.
Interrupt(p) ==
    /\ InTry(p) \/ InHandler(p) \/ InFinally(p) \/ InStartup(p)
    /\ IF InTry(p)
       THEN /\ pc' = [pc EXCEPT ![p] = "kbd"]
            /\ \E d \in 0..(POLL_INTERVAL - 1) :
                 /\ now + d <= MaxTime
                 /\ d > 0 => pc[p] = "sleep"
                 /\ now' = now + d
            /\ UNCHANGED <<ret, pending, exitCode, path>>
       ELSE IF InHandler(p)
       THEN /\ pc' = [pc EXCEPT ![p] = "finally"]
            /\ pending' = [pending EXCEPT ![p] = "KeyboardInterrupt"]
            /\ path' = [path EXCEPT ![p] = "uncaught"]
            /\ UNCHANGED <<ret, exitCode, now>>
       ELSE /\ ProcessExit(p, 130)
            /\ path' = [path EXCEPT ![p] = "uncaught"]
            /\ UNCHANGED <<pending, now>>
    /\ UNCHANGED <<lockVars, registered, probeVars, sessVars, histVars>>

\* An Exception raised by a statement of p (a print that fails, say).  In
\* the loop body it reaches the handler of line 202; in that handler, the
\* handler of line 237; in the handlers of the outer try it goes on through
\* the finally block.
Fault(p) ==
    /\ InTry(p) \/ InHandler(p)
    /\ IF pc[p] \in LoopPcs
       THEN /\ pc' = [pc EXCEPT ![p] = "loop_exc"]
            /\ UNCHANGED <<pending, path>>
       ELSE IF pc[p] \in LoopExcPcs
       THEN /\ pc' = [pc EXCEPT ![p] = "fatal"]
            /\ UNCHANGED <<pending, path>>
       ELSE /\ pc' = [pc EXCEPT ![p] = "finally"]
            /\ pending' = [pending EXCEPT ![p] = "Exception"]
            /\ path' = [path EXCEPT ![p] = "uncaught"]
    /\ UNCHANGED <<lockVars, registered, probeVars, ret, exitCode, sessVars, now, histVars>>

----------------------------------------------------------------------------
(* specifications *)

InitCommon ==
    /\ readPid = [p \in Trackers |-> 0]
    /\ ret = [p \in Trackers |-> "none"]
    /\ pending = [p \in Trackers |-> "none"]
    /\ exitCode = [p \in Trackers |-> 0]
    /\ cs2_active = [p \in Trackers |-> FALSE]
    /\ session_start = [p \in Trackers |-> <<>>]
    /\ session_end = [p \in Trackers |-> <<>>]
    /\ is_running = [p \in Trackers |-> FALSE]
    /\ now = 0
    /\ calls = [p \in Trackers |-> <<>>]
    /\ readings = [p \in Trackers |-> <<>>]
    /\ opens = [p \in Trackers |-> 0]
    /\ closes = [p \in Trackers |-> 0]
    /\ path = [p \in Trackers |-> "none"]
    /\ callKind = [p \in Trackers |-> "none"]
    /\ probeErr = [p \in Trackers |-> FALSE]
    /\ probeTable = <<>>
    /\ probeFails = FALSE
    /\ probeResult = FALSE

\* One tracker starts.  Pid 2 is gone, or is a tracker that holds the lock
\* and sleeps in its loop; pid 3 is gone or belongs to a foreign process.
Init ==
    /\ InitCommon
    /\ \E other \in {"absent", "sleep"}, foreign \in {"absent", "other"} :
         /\ pc = [q \in Pids |-> IF q = 1 THEN "start"
                                 ELSE IF q = 2 THEN other ELSE foreign]
         /\ registered = [p \in Trackers |-> p = 2 /\ other = "sleep"]
         /\ authCount = [p \in Trackers |-> IF p = 2 /\ other = "sleep" THEN 1 ELSE 0]
         /\ IF other = "sleep"
            THEN lockFile = PidFile(2)
            ELSE lockFile \in {NoFile, Invalid, PidFile(2), PidFile(3)}

Step(p) ==
    \/ TgStart(p) \/ CsiExists(p) \/ CsiRead(p) \/ CsiProcess(p) \/ CsiCmdline(p)
    \/ CsiRemoveStale(p) \/ CsiExcept(p) \/ CsiExceptRemove(p) \/ CsiWrite(p)
    \/ TgCheckFailed(p) \/ TgAtexitRegister(p) \/ AuthCalendar(p) \/ TgLoopInit(p)
    \/ Probe(p) \/ Branch(p) \/ Insert(p) \/ CloseReturn(p) \/ Sleep(p)
    \/ LoopExc(p) \/ ExcInsert(p) \/ ExcReturn(p)
    \/ Kbd(p) \/ KbdInsert(p) \/ Fatal(p) \/ FatalInsert(p)
    \/ Finally(p) \/ ClExists(p) \/ ClRemove(p) \/ FinalSleep(p)
    \/ Interrupt(p) \/ Fault(p)

\* Only the tracker that starts takes steps; a tracker already running
\* (pid 2) stays asleep in its loop.
Next == \E p \in Primary : Step(p)

Spec == Init /\ [][Next]_vars

\* Two trackers start concurrently; the game is not launched and each
\* tracker that reaches its loop stays there until it is interrupted.
InitLock ==
    /\ InitCommon
    /\ \E foreign \in {"absent", "other"} :
         pc = [q \in Pids |-> IF q \in Trackers THEN "start" ELSE foreign]
    /\ registered = [p \in Trackers |-> FALSE]
    /\ authCount = [p \in Trackers |-> 0]
    /\ lockFile \in {NoFile, Invalid, PidFile(3)}

LockStep(p) ==
    \/ TgStart(p) \/ CsiExists(p) \/ CsiRead(p) \/ CsiProcess(p) \/ CsiCmdline(p)
    \/ CsiRemoveStale(p) \/ CsiExcept(p) \/ CsiExceptRemove(p) \/ CsiWrite(p)
    \/ TgCheckFailed(p) \/ TgAtexitRegister(p) \/ AuthCalendar(p) \/ TgLoopInit(p)
    \/ Kbd(p) \/ Finally(p) \/ ClExists(p) \/ ClRemove(p) \/ FinalSleep(p)
    \/ Interrupt(p)

NextLock == \E p \in Trackers : LockStep(p)

SpecLock == InitLock /\ [][NextLock]_vars

\* The tracker keeps running: a live process executes its next statement
\* and time.sleep returns.
FairSpec == Spec /\ WF_vars(Next)

\* is_cs2_running() called on its own on a process table, lines 117-143
IsCs2RunningCall ==
    /\ \E table \in ProcTables, iterFails \in BOOLEAN :
         /\ probeTable' = table
         /\ probeFails' = iterFails
         /\ probeResult' = IsCs2Running(table, iterFails)
    /\ UNCHANGED <<pc, lockVars, registered, ret, pending, exitCode, sessVars, now,
                   histVars, path>>

InitProbe ==
    /\ InitCommon
    /\ pc = [q \in Pids |-> "absent"]
    /\ registered = [p \in Trackers |-> FALSE]
    /\ authCount = [p \in Trackers |-> 0]
    /\ lockFile = NoFile

NextProbe == IsCs2RunningCall

SpecProbe == InitProbe /\ [][NextProbe]_vars

----------------------------------------------------------------------------
(* properties *)

\* p is past a successful check_single_instance() and has not begun to
\* release the lock
Holding(p) ==
    pc[p] \in {"csi_ret_true", "auth", "loop_init", "finally"}
              \cup LoopPcs \cup LoopExcPcs \cup KbdPcs \cup FatalPcs

Other(p) == CHOOSE q \in Trackers : q # p

Duration(p) == session_end[p][1] - session_start[p][1]

RisingEdges(r) ==
    Cardinality({i \in 1..Len(r) : r[i] /\ (i = 1 \/ ~r[i - 1])})

FallingEdges(r) ==
    Cardinality({i \in 2..Len(r) : ~r[i] /\ r[i - 1]})

\* C1: a session is recorded at most once: create_event is never invoked a
\* second time for the session of a run, whichever close path runs.
C1_RecordedAtMostOnce ==
    \A p \in Trackers : Len(calls[p]) <= 1

\* C2: a session whose duration is below the minimum is never submitted to
\* create_event, on any of the four close paths.
C2_ShortNeverSubmitted ==
    \A p \in Trackers : \A i \in 1..Len(calls[p]) :
        calls[p][i].end - calls[p][i].start >= MIN_DURATION

C2_Witness ==
    /\ pc[1] = "done"
    /\ closes[1] = 1
    /\ Duration(1) < MIN_DURATION
    /\ Duration(1) > 0
    /\ calls[1] = <<>>

\* C3: whenever the loop has dealt with every reading it has taken, the
\* number of session opens is the number of false->true edges of the
\* readings and the number of closes the number of true->false edges.
C3_OpenClosePerEdge ==
    \A p \in Trackers :
        (pc[p] \in {"probe", "sleep", "insert", "close_ret"} \/ path[p] = "session")
        => /\ opens[p] = RisingEdges(readings[p])
           /\ closes[p] = FallingEdges(readings[p])

C3_Witness ==
    /\ pc[1] = "close_ret"
    /\ opens[1] = 1
    /\ closes[1] = 1
    /\ Len(readings[1]) > 3

\* C4 (as claimed): after the readings [false, true, true, false] exactly
\* one event is recorded, and its end minus its start is 2T.
C4_OneEventOfTwoPolls ==
    (readings[1] = <<FALSE, TRUE, TRUE, FALSE>> /\ closes[1] = 1 /\ pc[1] = "done")
    => /\ Len(calls[1]) = 1
       /\ calls[1][1].ok
       /\ calls[1][1].end - calls[1][1].start = 2 * POLL_INTERVAL

\* C4 (amended): after the readings [false, true, true, false] exactly one
\* session has been opened and closed, its end minus its start is 2T, and
\* as 2T is below the minimum duration no event is submitted.
C4_OneSessionOfTwoPollsUnrecorded ==
    (readings[1] = <<FALSE, TRUE, TRUE, FALSE>> /\ closes[1] = 1)
    => /\ opens[1] = 1
       /\ Duration(1) = 2 * POLL_INTERVAL
       /\ calls[1] = <<>>

C4_Witness ==
    /\ readings[1] = <<FALSE, TRUE, TRUE, FALSE>>
    /\ closes[1] = 1
    /\ pc[1] = "done"

\* C5: two trackers are never both past a successful acquisition.
C5_MutualExclusion ==
    ~(Holding(1) /\ Holding(2))

\* C6: a call made while the lock file holds the pid of a live tracker
\* that keeps holding the lock does not succeed, and the lock file keeps
\* that pid, also once the caller has exited.
C6_SecondCallFails ==
    \A p \in Trackers :
        (callKind[p] = "held" /\ Holding(Other(p)))
        => /\ pc[p] \in {"csi_exists", "csi_read", "csi_proc", "csi_cmdline",
                         "csi_ret_false", "done"}
           /\ lockFile = PidFile(Other(p))
           /\ ~registered[p]

C6_Witness ==
    /\ callKind[2] = "held"
    /\ Holding(1)
    /\ pc[2] = "done"
    /\ path[2] = "contention"

\* C7: a call that finds the lock file holding the pid of a process that
\* is gone, or is not the tracker, returns True, and then the lock file
\* holds the caller's pid.
C7_StaleLockTakenOver ==
    callKind[1] = "stale"
    => /\ pc[1] # "csi_ret_false"
       /\ path[1] \notin {"contention", "crash"}
       /\ Holding(1) => lockFile = PidFile(1)

C7_Witness ==
    /\ callKind[1] = "stale"
    /\ pc[1] = "csi_ret_true"
    /\ pc[3] = "other"
    /\ readPid[1] = 3

\* C8: a tracker that was interrupted while active, and whose handler of
\* the interrupt ran to the end, has submitted exactly one event if the
\* duration qualifies and none otherwise, and has left no lock file.
C8_InterruptWhileActive ==
    (pc[1] = "done" /\ path[1] = "interrupt" /\ cs2_active[1])
    => /\ Len(calls[1]) = (IF Qualifies(session_start[1][1], session_end[1][1])
                           THEN 1 ELSE 0)
       /\ lockFile = NoFile

\* C9: once a tracker whose check_single_instance() returned True has
\* exited, the lock file it wrote is gone.
C9_ReleasedOnEveryExit ==
    (pc[1] = "done" /\ path[1] \notin {"contention", "crash"} /\ callKind[1] # "none")
    => lockFile # PidFile(1)

\* C10: the exit status is non-zero after an authentication failure and
\* after lock contention, which ends the process before any authentication
\* or probe; it is zero after a completed session and a handled interrupt.
C10_ExitCodes ==
    pc[1] = "done"
    => /\ path[1] \in {"contention", "auth"} => exitCode[1] # 0
       /\ path[1] = "contention" => authCount[1] = 0 /\ readings[1] = <<>>
       /\ callKind[1] = "held" => exitCode[1] # 0 /\ authCount[1] = 0
       /\ path[1] \in {"session", "interrupt"} => exitCode[1] = 0

C10_Witness ==
    /\ pc[1] = "done"
    /\ path[1] = "interrupt"
    /\ exitCode[1] = 0
    /\ callKind[1] = "stale"

\* C11 (as claimed): after a create_event call on the normal close path,
\* whatever its outcome, the tracker returns to Idle and goes on tracking:
\* the loop is not left by the return of the close branch.
C11_TrackingContinues ==
    \A p \in Primary :
        (calls[p] # <<>> /\ calls[p][1].via = "close") => path[p] # "session"

\* C11 (amended): a create_event call never raises and its outcome does not
\* influence control: the step that makes the call goes to the statement
\* after the call (the print-and-return of the close branch, or of the
\* handler) with nothing else changed, whether the insert succeeded or
\* failed; a run that ends by the return of the close branch exits with
\* status 0 even when the insert failed.
C11_InsertOutcomeIgnored ==
    /\ [][\A p \in Primary :
            Len(calls'[p]) > Len(calls[p])
            => /\ pc'[p] = (IF pc[p] = "insert" THEN "close_ret"
                            ELSE IF pc[p] = "exc_insert" THEN "exc_ret"
                            ELSE "finally")
               /\ pending'[p] = pending[p]
               /\ sessVars' = sessVars
               /\ path'[p] = path[p]]_vars
    /\ [](\A p \in Primary :
            (pc[p] = "done" /\ path[p] = "session") => exitCode[p] = 0)

C11_Witness ==
    /\ pc[1] = "done"
    /\ path[1] = "session"
    /\ Len(calls[1]) = 1
    /\ ~calls[1][1].ok
    /\ exitCode[1] = 0

\* C12: a probe that raised inside is_cs2_running does not make the tracker
\* leave the loop: the loop never returns from an iteration whose probe
\* failed, in Idle or in Active.
C12_ProbeFailureNonFatal ==
    \A p \in Primary : probeErr[p] => path[p] \notin {"session", "no_start"}

\* C13: when the loop's fault handler has run and the tracker has exited,
\* the lock is released and, if a session was open, create_event was invoked
\* exactly once when the session lasted the minimum duration and not at all
\* otherwise; with no session open nothing was recorded.
C13_FaultWhileActive ==
    \A p \in Primary :
        (pc[p] = "done" /\ path[p] = "loop_fault")
        => /\ lockFile = NoFile
           /\ IF cs2_active[p]
              THEN Len(calls[p]) =
                     (IF Qualifies(session_start[p][1], session_end[p][1])
                      THEN 1 ELSE 0)
              ELSE calls[p] = <<>>

\* C14: is_cs2_running returns true exactly when some process it can
\* inspect has a name equal, ignoring case, to one of GAME_NAMES.
C14_MatchesGameNames ==
    ~probeFails =>
        (probeResult <=>
            \E i \in 1..Len(probeTable) :
                /\ probeTable[i].info # "gone"
                /\ Lower(probeTable[i].name) \in {Lower(g) : g \in GAME_NAMES})

Inspectable(e) == e.info # "gone"

\* C15: a process that vanished between listing and inspection does not
\* change the answer of is_cs2_running: it is the answer for the table
\* without the vanished processes.
C15_VanishedExcluded ==
    probeResult = IsCs2Running(SelectSeq(probeTable, Inspectable), probeFails)

C15_Witness ==
    /\ ~probeFails
    /\ \E i \in 1..Len(probeTable) :
          probeTable[i].info = "gone" /\ Lower(probeTable[i].name) = "cs2.exe"
    /\ \E i \in 1..Len(probeTable) : probeTable[i].info # "gone"
    /\ ~probeResult

\* C16: start-up is ordered lock, authenticate, poll: auth_calendar is
\* called at most once and only after check_single_instance returned True,
\* it has been called exactly once when the loop runs, and no probe reading
\* or create_event call exists before it has succeeded.
C16_StartupOrder ==
    \A p \in Primary :
        /\ authCount[p] <= 1
        /\ authCount[p] = 1 => registered[p]
        /\ pc[p] \in {"start", "csi_ret_true", "csi_ret_false", "auth"} \cup CsiPcs
           => authCount[p] = 0
        /\ pc[p] \in {"loop_init"} \cup LoopPcs \cup LoopExcPcs \cup KbdPcs \cup FatalPcs
           => authCount[p] = 1 /\ path[p] # "auth"
        /\ (readings[p] # <<>> \/ calls[p] # <<>>)
           => authCount[p] = 1 /\ path[p] # "auth"

C16_Witness ==
    /\ authCount[1] = 1
    /\ readings[1] # <<>>
    /\ calls[1] # <<>>

\* C17: the loop is left only by an interrupt, by a fault, or by the return
\* that follows the close of one session; a run opens and closes at most
\* one session and polls no more after the close; and once a session has
\* been closed the tracker eventually terminates with the lock file gone.
C17_LoopEnds ==
    /\ [][\A p \in Primary :
            (pc[p] \in LoopPcs /\ pc'[p] \notin LoopPcs)
            => \/ pc'[p] = "kbd"
               \/ pc'[p] = "loop_exc"
               \/ /\ pc'[p] = "finally"
                  /\ closes[p] = 1
                  /\ FallingEdges(readings[p]) = 1]_vars
    /\ [](\A p \in Primary :
            /\ opens[p] <= 1
            /\ closes[p] <= 1
            /\ closes[p] = 1 => pc[p] \notin {"probe", "branch", "sleep"})
    /\ (closes[1] = 1) ~> (pc[1] = "done" /\ lockFile = NoFile)

C17_Witness ==
    /\ pc[1] = "done"
    /\ path[1] = "session"
    /\ closes[1] = 1
    /\ lockFile = NoFile

\* C18: while a tracker is between its successful check_single_instance
\* and its own release of the lock, the lock file exists and holds its pid.
C18_LockFileOwned ==
    \A p \in Trackers : Holding(p) => lockFile = PidFile(p)

====
